---- MODULE Spec2Model ----
(***************************************************************************)
(* Elevator movement log service (dmaio/app/main.py).                      *)
(*                                                                         *)
(* The store holds two tables, elevators and movements.  log_movement is   *)
(* modelled at the granularity of its database round trips: the SELECT of  *)
(* the open row, the UPDATE+commit that closes it, the INSERT+commit of    *)
(* the new row.  Spec runs the requests one at a time, SpecConc lets the   *)
(* round trips of two sessions interleave.                                 *)
(***************************************************************************)
EXTENDS Integers, Sequences, FiniteSets

\* ---------------------------------------------------------------- bounds
MaxMovements == 2
MaxElevators == 1
MaxTime      == 1

\* ---------------------------------------------------------------- inputs
Sessions     == {1, 2}
ElevatorIds  == {1, 2}
PathIds      == {1, 2, 3}
Floors       == {1, 2}
RaceFloors   == {1}
Names        == {"A"}
Locations    == {"Lobby"}
TzOffsets    == {-1, 0, 1}

\* a nullable column / optional field: None or a one-element sequence
None    == <<>>
Some(t) == <<t>>

DepartureInputs == {None, Some(0)}
QueryInputs     == {None} \cup {Some(e) : e \in ElevatorIds}

VARIABLES
    elevators,          \* table "elevators", in id order
    movements,          \* table "movements", in id order
    utc,                \* the wall clock, in UTC
    tz,                 \* offset of the server's local time from UTC
    pc,                 \* per session: position inside log_movement
    db_movement,        \* per session: the Movement built from the request body
    db_movement_match   \* per session: id of the row the lookup returned, 0 for None

vars == <<elevators, movements, utc, tz, pc, db_movement, db_movement_match>>

\* ---------------------------------------------------------------- clocks
\* func.now(): SQLite's CURRENT_TIMESTAMP, which is UTC
FuncNow == utc
\* datetime.now(): naive local time of the server process
DatetimeNow == utc + tz

\* ---------------------------------------------------------------- schema
MovementCreate(e, sf, ef, d) ==
    [elevator_id |-> e, start_floor |-> sf, end_floor |-> ef, departure_time |-> d]

NoMovement == MovementCreate(0, 0, 0, None)

Elevator(id, name, location) ==
    [id |-> id, name |-> name, location |-> location]

\* ------------------------------------------------- log_movement, helpers
NewMovementWithoutDeparture(id, m, t) ==
    [id |-> id, elevator_id |-> m.elevator_id, start_floor |-> m.start_floor,
     end_floor |-> m.end_floor, arrival_time |-> t, departure_time |-> None]

NewMovementSwapped(id, m, t) ==
    [id |-> id, elevator_id |-> m.elevator_id, start_floor |-> m.end_floor,
     end_floor |-> m.start_floor, arrival_time |-> t,
     departure_time |-> m.departure_time]

\* the row INSERTed for db_movement: autoincrement id, arrival_time defaulted
Movement(id, m, t) ==
    [id |-> id, elevator_id |-> m.elevator_id, start_floor |-> m.start_floor,
     end_floor |-> m.end_floor, arrival_time |-> t,
     departure_time |-> m.departure_time]

OpenMatchesAnyElevator(rows, e) ==
    {i \in DOMAIN rows : rows[i].departure_time = None}

\* rows selected by .filter(elevator_id == e).where(departure_time == None)
OpenMatches(rows, e) ==
    {i \in DOMAIN rows : rows[i].elevator_id = e /\ rows[i].departure_time = None}

\* .first() without ORDER BY: any selected row, or None (0)
FirstOpen(rows, e) ==
    IF OpenMatches(rows, e) = {} THEN {0} ELSE OpenMatches(rows, e)

CloseRowNotPersisted(rows, m, t) == rows

\* db_movement_match.departure_time = t; db.commit()
CloseRow(rows, m, t) ==
    [rows EXCEPT ![m].departure_time = Some(t)]

\* ---------------------------------------------------------------- queries
\* db.query(Movement).where(Movement.elevator_id == eid).all()
get_movements_by(eid, rows) ==
    LET Test(r) == r.elevator_id = eid IN SelectSeq(rows, Test)

\* GET /movements/{elevator_id}: the handler's parameter is named eid, so it
\* is bound from the query string and is required; the path value is unused
get_movements(path_id, query, rows) ==
    IF query = None
    THEN [status |-> 422, body |-> <<>>]
    ELSE [status |-> 200, body |-> get_movements_by(query[1], rows)]

get_resting_elevators_closed(rows) ==
    LET Test(r) == r.departure_time # None IN SelectSeq(rows, Test)

\* GET /resting_elevators
get_resting_elevators(rows) ==
    LET Test(r) == r.departure_time = None IN SelectSeq(rows, Test)

demand_rows_unfiltered(rows) == rows

\* .where(Movement.departure_time != None)
demand_rows(rows) ==
    LET Test(r) == r.departure_time # None IN SelectSeq(rows, Test)

\* GET /ml_data/: training_data, one entry per group of the GROUP BY
training_data(rows) ==
    LET d    == demand_rows(rows)
        keys == {<<d[i].start_floor, d[i].end_floor>> : i \in DOMAIN d}
    IN  {[requested_floor   |-> k[1],
          destination_floor |-> k[2],
          count |-> Cardinality({i \in DOMAIN d :
                        d[i].start_floor = k[1] /\ d[i].end_floor = k[2]})]
         : k \in keys}

\* ---------------------------------------------------------------- state
Init ==
    /\ elevators = <<>>
    /\ movements = <<>>
    /\ utc = 0
    /\ tz \in TzOffsets
    /\ pc = [s \in Sessions |-> "idle"]
    /\ db_movement = [s \in Sessions |-> NoMovement]
    /\ db_movement_match = [s \in Sessions |-> 0]

InFlight == {s \in Sessions : pc[s] \in {"matched", "adding"}}

\* POST /elevators/
create_elevator ==
    /\ Len(elevators) < MaxElevators
    /\ \E n \in Names, l \in Locations :
          elevators' = Append(elevators, Elevator(Len(elevators) + 1, n, l))
    /\ UNCHANGED <<movements, utc, tz, pc, db_movement, db_movement_match>>

\* POST /movements/, request parsed and the open row looked up
Query(s, F) ==
    /\ pc[s] = "idle"
    /\ Len(movements) < MaxMovements
    /\ \E e \in ElevatorIds, sf \in F, ef \in F, d \in DepartureInputs :
          /\ db_movement' = [db_movement EXCEPT ![s] = MovementCreate(e, sf, ef, d)]
          /\ \E m \in FirstOpen(movements, e) :
                /\ db_movement_match' = [db_movement_match EXCEPT ![s] = m]
                /\ pc' = [pc EXCEPT ![s] = IF m = 0 THEN "adding" ELSE "matched"]
    /\ UNCHANGED <<elevators, movements, utc, tz>>

\* POST /movements/, the matched row closed and committed
Close(s) ==
    /\ pc[s] = "matched"
    /\ movements' = CloseRow(movements, db_movement_match[s], DatetimeNow)
    /\ pc' = [pc EXCEPT ![s] = "adding"]
    /\ UNCHANGED <<elevators, utc, tz, db_movement, db_movement_match>>

\* an insert that looks again and closes what is open, in one commit
InsertClosingOpenRows(s) ==
    /\ pc[s] = "adding"
    /\ Len(movements) < MaxMovements
    /\ movements' = Append(
          [i \in DOMAIN movements |->
              IF i \in OpenMatches(movements, db_movement[s].elevator_id)
              THEN [movements[i] EXCEPT !.departure_time = Some(DatetimeNow)]
              ELSE movements[i]],
          Movement(Len(movements) + 1, db_movement[s], FuncNow))
    /\ pc' = [pc EXCEPT ![s] = "idle"]
    /\ db_movement' = [db_movement EXCEPT ![s] = NoMovement]
    /\ db_movement_match' = [db_movement_match EXCEPT ![s] = 0]
    /\ UNCHANGED <<elevators, utc, tz>>

\* POST /movements/, the new row inserted and committed, response sent
Insert(s) ==
    /\ pc[s] = "adding"
    /\ Len(movements) < MaxMovements
    /\ movements' = Append(movements,
                           Movement(Len(movements) + 1, db_movement[s], FuncNow))
    /\ pc' = [pc EXCEPT ![s] = "idle"]
    /\ db_movement' = [db_movement EXCEPT ![s] = NoMovement]
    /\ db_movement_match' = [db_movement_match EXCEPT ![s] = 0]
    /\ UNCHANGED <<elevators, utc, tz>>

\* the request stops between two round trips; get_db closes the session,
\* what was committed stays
Fail(s) ==
    /\ pc[s] \in {"matched", "adding"}
    /\ pc' = [pc EXCEPT ![s] = "idle"]
    /\ db_movement' = [db_movement EXCEPT ![s] = NoMovement]
    /\ db_movement_match' = [db_movement_match EXCEPT ![s] = 0]
    /\ UNCHANGED <<elevators, movements, utc, tz>>

Tick ==
    /\ utc < MaxTime
    /\ utc' = utc + 1
    /\ UNCHANGED <<elevators, movements, tz, pc, db_movement, db_movement_match>>

\* a request starts only when no other request is under way
QuerySerial(s) ==
    /\ InFlight = {}
    /\ Query(s, Floors)

Next ==
    \/ create_elevator
    \/ Tick
    \/ \E s \in Sessions : QuerySerial(s)
    \/ \E s \in Sessions : Close(s)
    \/ \E s \in Sessions : Insert(s)
    \/ \E s \in Sessions : Fail(s)

Spec == Init /\ [][Next]_vars

\* a request starts whatever the other sessions are doing
QueryConc(s) ==
    Query(s, RaceFloors)

NextConc ==
    \/ create_elevator
    \/ Tick
    \/ \E s \in Sessions : QueryConc(s)
    \/ \E s \in Sessions : Close(s)
    \/ \E s \in Sessions : Insert(s)
    \/ \E s \in Sessions : Fail(s)

SpecConc == Init /\ [][NextConc]_vars

\* ------------------------------------------------------- reading a store
OpenRowsIn(rows, e) ==
    {i \in DOMAIN rows : rows[i].elevator_id = e /\ rows[i].departure_time = None}

RowsOfIn(rows, e) ==
    {i \in DOMAIN rows : rows[i].elevator_id = e}

ClosedRowsIn(rows) ==
    {i \in DOMAIN rows : rows[i].departure_time # None}

\* a departure_time no request body carries: written by log_movement's close
ServerStamped(r) ==
    r.departure_time # None /\ r.departure_time \notin DepartureInputs

Body(seq) == {seq[j] : j \in DOMAIN seq}

RECURSIVE SumCounts(_)
SumCounts(entries) ==
    IF entries = {} THEN 0
    ELSE LET x == CHOOSE y \in entries : TRUE
         IN  x.count + SumCounts(entries \ {x})

\* -------------------------------------------- recognising a step of a call
QueryStep(s)  == pc[s] = "idle" /\ pc'[s] # "idle"
CloseStep(s)  == pc[s] = "matched" /\ pc'[s] = "adding"
InsertStep(s) == pc[s] = "adding" /\ pc'[s] = "idle"
                 /\ Len(movements') = Len(movements) + 1
FailStep(s)   == pc[s] # "idle" /\ pc'[s] = "idle"
                 /\ Len(movements') = Len(movements)

\* ---------------------------------------------------------------- claims

\* C1: when log_movement requests run one after another from an empty store,
\* every elevator_id has at most one Movement row with departure_time null.
C1_AtMostOneOpen ==
    \A e \in ElevatorIds : Cardinality(OpenRowsIn(movements, e)) <= 1

\* an elevator with an earlier row closed by a later request and one open row
C1_Witness ==
    /\ InFlight = {}
    /\ \E e \in ElevatorIds :
          /\ Cardinality(RowsOfIn(movements, e)) >= 2
          /\ Cardinality(OpenRowsIn(movements, e)) = 1
          /\ \E i \in RowsOfIn(movements, e) : ServerStamped(movements[i])

\* C2 (as stated): a call for an elevator that had an open row ends with the
\* new row open and the only open row of that elevator.
C2_NewRowSoleOpen ==
    [][\A s \in Sessions :
          (InsertStep(s) /\ db_movement_match[s] # 0) =>
              LET n == Len(movements')
                  e == db_movement[s].elevator_id
              IN  /\ movements'[n].departure_time = None
                  /\ OpenRowsIn(movements', e) = {n}]_vars

\* C2 (amended): a call for an elevator that had an open row ends with no
\* earlier row of that elevator open and the new row carrying the submitted
\* departure_time: omitted, the new row is the sole open row; supplied, the
\* new row is closed and the elevator has no open row.
C2_NewRowCarriesDeparture ==
    [][\A s \in Sessions :
          (InsertStep(s) /\ db_movement_match[s] # 0) =>
              LET n == Len(movements')
                  e == db_movement[s].elevator_id
                  d == db_movement[s].departure_time
              IN  /\ movements'[n].departure_time = d
                  /\ OpenRowsIn(movements', e) \subseteq {n}
                  /\ d = None => OpenRowsIn(movements', e) = {n}
                  /\ d # None => OpenRowsIn(movements', e) = {}]_vars

\* the second request supplied a departure_time: first row closed by the
\* server, second row closed by the client, nothing open
C2_Witness ==
    /\ InFlight = {}
    /\ Len(movements) = 2
    /\ movements[1].elevator_id = movements[2].elevator_id
    /\ ServerStamped(movements[1])
    /\ movements[2].departure_time = Some(0)

\* C3: the departure_time log_movement writes when it closes a row is at or
\* after that row's arrival_time.
C3_DepartureNotBeforeArrival ==
    [][\A s \in Sessions :
          CloseStep(s) =>
              LET m == db_movement_match[s]
              IN  movements'[m].departure_time[1] >= movements[m].arrival_time]_vars

\* C4: a call for an elevator without an open row adds exactly one row, with
\* the submitted elevator_id, floors and departure_time, and changes no
\* existing row.
C4_InsertOnly ==
    [][\A s \in Sessions :
          /\ (QueryStep(s) /\ OpenRowsIn(movements, db_movement'[s].elevator_id) = {}) =>
                /\ db_movement_match'[s] = 0
                /\ pc'[s] = "adding"
                /\ movements' = movements
          /\ (InsertStep(s) /\ db_movement_match[s] = 0) =>
                LET n == Len(movements')
                    m == db_movement[s]
                IN  /\ SubSeq(movements', 1, Len(movements)) = movements
                    /\ movements'[n].elevator_id = m.elevator_id
                    /\ movements'[n].start_floor = m.start_floor
                    /\ movements'[n].end_floor = m.end_floor
                    /\ movements'[n].departure_time = m.departure_time]_vars

\* the first movement of a store, going up, with a supplied departure_time
C4_Witness ==
    /\ InFlight = {}
    /\ Len(movements) = 1
    /\ movements[1].start_floor < movements[1].end_floor
    /\ movements[1].departure_time = Some(0)

\* C5: GET /movements/{elevator_id} answers with exactly the rows of the
\* elevator named in the path, an empty list when it has none.
C5_RowsOfPathElevator ==
    \A p \in PathIds, q \in QueryInputs :
        LET r == get_movements(p, q, movements)
        IN  /\ r.status = 200
            /\ Len(r.body) = Cardinality(RowsOfIn(movements, p))
            /\ Body(r.body) = {movements[i] : i \in RowsOfIn(movements, p)}

\* C6: GET /resting_elevators answers with exactly the rows whose
\* departure_time is null, each once; after two movements of one elevator
\* the second of which is open, that is the second row alone.
C6_RestingExactlyOpen ==
    LET r == get_resting_elevators(movements)
    IN  /\ \A i \in DOMAIN movements :
              movements[i] \in Body(r) <=> movements[i].departure_time = None
        /\ Body(r) \subseteq Body(movements)
        /\ Len(r) = Cardinality({i \in DOMAIN movements :
                                    movements[i].departure_time = None})
        /\ (/\ Len(movements) = 2
            /\ movements[1].elevator_id = movements[2].elevator_id
            /\ movements[2].departure_time = None) => r = <<movements[2]>>

\* two movements logged without departure_time for one elevator
C6_Witness ==
    /\ InFlight = {}
    /\ Len(movements) = 2
    /\ movements[1].elevator_id = movements[2].elevator_id
    /\ ServerStamped(movements[1])
    /\ movements[2].departure_time = None

\* C7: training_data has one entry per (start_floor, end_floor) pair of the
\* closed rows, and its counts add up to the number of closed rows.
C7_CountsSumToClosed ==
    LET t == training_data(movements)
        closed == ClosedRowsIn(movements)
        pairs == {<<movements[i].start_floor, movements[i].end_floor>> : i \in closed}
    IN  /\ {<<x.requested_floor, x.destination_floor>> : x \in t} = pairs
        /\ Cardinality(t) = Cardinality(pairs)
        /\ \A x \in t : x.count >= 1
        /\ SumCounts(t) = Cardinality(closed)

\* a closed row and an open row with the same pair of floors
C7_Witness ==
    /\ Len(movements) = 2
    /\ movements[1].departure_time # None
    /\ movements[2].departure_time = None
    /\ movements[1].start_floor = movements[2].start_floor
    /\ movements[1].end_floor = movements[2].end_floor

\* C8: when the round trips of two requests for one elevator interleave, the
\* insert of a request that omitted departure_time goes through although the
\* elevator already has an open row, and leaves it with two open rows.
C8_RaceLeavesTwoOpen ==
    [][\A s \in Sessions :
          (/\ InsertStep(s)
           /\ db_movement[s].departure_time = None
           /\ OpenRowsIn(movements, db_movement[s].elevator_id) # {}) =>
              Cardinality(OpenRowsIn(movements', db_movement[s].elevator_id)) >= 2]_vars

\* both requests have returned and the elevator has two open rows
C8_Witness ==
    /\ InFlight = {}
    /\ \E e \in ElevatorIds : Cardinality(OpenRowsIn(movements, e)) >= 2

\* C9: a request that stops after the commit closing the open row and before
\* the insert leaves the row closed, adds no row, and leaves the elevator
\* without an open row.
C9_CrashAfterClose ==
    [][\A s \in Sessions :
          (FailStep(s) /\ pc[s] = "adding" /\ db_movement_match[s] # 0) =>
              LET m == db_movement_match[s]
              IN  /\ movements' = movements
                  /\ movements'[m].departure_time # None
                  /\ OpenRowsIn(movements', db_movement[s].elevator_id) = {}]_vars

\* the newest row of an elevator was closed by the server and nothing
\* followed it: the closing request never inserted
C9_Witness ==
    /\ InFlight = {}
    /\ \E i \in DOMAIN movements :
          /\ ServerStamped(movements[i])
          /\ \A j \in RowsOfIn(movements, movements[i].elevator_id) : j <= i

\* what every step leaves alone: no row is deleted, at most one row changes,
\* only in departure_time and never back to null, and only in the close of a
\* call for that row's elevator; a step of a call leaves the elevators alone
C10_Frame ==
    /\ Len(movements') >= Len(movements)
    /\ Cardinality({i \in DOMAIN movements : movements'[i] # movements[i]}) <= 1
    /\ \A i \in DOMAIN movements :
          movements'[i] # movements[i] =>
              /\ movements'[i].departure_time # None
              /\ movements'[i] = [movements[i] EXCEPT
                                    !.departure_time = movements'[i].departure_time]
              /\ \E s \in Sessions :
                    /\ CloseStep(s)
                    /\ db_movement_match[s] = i
                    /\ db_movement[s].elevator_id = movements[i].elevator_id
    /\ (\E s \in Sessions : pc'[s] # pc[s]) => elevators' = elevators

\* C10 (as stated): a call changes at most one existing row, an open row of
\* its elevator, from null to a departure_time; closed rows, other elevators'
\* rows and the elevators are unchanged and nothing is deleted.
C10_ClosedRowsNeverChange ==
    [][/\ C10_Frame
       /\ \A i \in DOMAIN movements :
             movements[i].departure_time # None => movements'[i] = movements[i]]_vars

\* C10 (amended): a call changes at most one existing row, the row of its
\* elevator that its lookup returned and that was open at the lookup; only
\* departure_time changes, to a non-null value; other elevators' rows and
\* the elevators are unchanged, nothing is deleted, no row is reopened.
C10_OnlyLookedUpRowChanges ==
    [][/\ C10_Frame
       /\ \A s \in Sessions :
             (QueryStep(s) /\ db_movement_match'[s] # 0) =>
                 LET m == db_movement_match'[s]
                 IN  /\ m \in DOMAIN movements
                     /\ movements[m].departure_time = None
                     /\ movements[m].elevator_id = db_movement'[s].elevator_id]_vars

\* both interleaved calls looked up the same open row and both have closed it
C10_Witness ==
    \E i \in DOMAIN movements :
        /\ pc[1] = "adding" /\ pc[2] = "adding"
        /\ db_movement_match[1] = i /\ db_movement_match[2] = i
        /\ movements[i].departure_time # None

====
